---- MODULE Spec2Model ----
(***************************************************************************)
(* A model of NVDocument (src/unnamed/part_000): the image-options         *)
(* registry, the scene accessors with their observers, the options record  *)
(* and the json() / loadFromJSON / loadFromFile export-import pair.        *)
(*                                                                         *)
(* JavaScript objects that are shared by reference (load-option records,   *)
(* array-valued option fields) live in heaps indexed by a reference, so    *)
(* that aliasing is visible.  JavaScript numbers are tagged records        *)
(* [t, v] so that NaN, Infinity and strings stay distinct from numbers.    *)
(***************************************************************************)
EXTENDS Integers, Sequences, FiniteSets, TLC

VARIABLES
    volumes,            \* NVDocument.volumes: sequence of image ids
    display,            \* live display state of every NVImage, by id
    imageOptionsArray,  \* data.imageOptionsArray: sequence of record refs
    imageOptionsMap,    \* imageOptionsMap: image id -> 0-based position
    optionRecords,      \* heap of ImageFromUrlOptions objects, by ref
    addCount,           \* history: addImageOptions calls per image, up to 2
    sceneData,          \* scene.sceneData
    azElCalls,          \* calls received by scene.onAzimuthElevationChange
    zoomCalls,          \* calls received by scene.onZoom3DChange
    opts,               \* data.opts
    callerOpts,         \* an options object o held by the caller
    arrays,             \* heap of the arrays shared by reference, by name
    imports,            \* the import calls made and what each returned
    nodes,              \* NVConnectome.nodes: sequence of node objects
    edges,              \* NVConnectome.edges: sequence of edge objects
    dispatched,         \* the event the last call sent to nodesChanged
    lastOp,             \* the call that produced the current state
    ret                 \* what that call returned

docVars == <<volumes, display, imageOptionsArray, imageOptionsMap,
             optionRecords, addCount>>
sceneVars == <<sceneData, azElCalls, zoomCalls>>
optsVars == <<opts, callerOpts, arrays>>
importVars == <<imports>>
connectomeVars == <<nodes, edges, dispatched>>

vars == <<docVars, sceneVars, optsVars, importVars, connectomeVars,
          lastOp, ret>>

---------------------------------------------------------------------------
(* Bounds *)

MaxImages == 2      \* distinct NVImage objects
MaxAdds == 2        \* addImageOptions calls in one behaviour

ImageIds == 1..MaxImages

---------------------------------------------------------------------------
(* JavaScript values *)

Num(n) == [t |-> "number", v |-> n]
NaN == [t |-> "NaN", v |-> 0]
Null == [t |-> "null", v |-> 0]
Infinity == [t |-> "Infinity", v |-> 0]
\* a string value, tagged by its text
Str(s) == [t |-> s, v |-> 0]

\* An array-valued field holds an object.  A shared array is named by ref
\* and its elements are in the heap arrays; an array nobody else holds
\* (built by a constructor, a caller or JSON.parse) carries its elements.
Shared(ref) == [ref |-> ref, val |-> <<>>]
Fresh(val) == [ref |-> "fresh", val |-> val]

\* x || NaN
OrNaN(x) == IF x.t = "number" /\ x.v # 0 THEN x ELSE NaN

---------------------------------------------------------------------------
(* File names are sequences of tokens: a stem followed by its suffixes.    *)
(* <<>> stands for both the empty string and an absent field: the code     *)
(* only ever tests them for truthiness.                                    *)

toLowerCase(tok) ==
    CASE tok = ".GZ" -> ".gz"
      [] tok = ".NII" -> ".nii"
      [] OTHER -> tok

endsWith(name, suffix) ==
    /\ Len(name) > 0
    /\ toLowerCase(name[Len(name)]) = suffix

\* the part of addImageOptions that derives a name from the url's last
\* path segment
NameFromUrl(file) ==
    LET stripped == IF endsWith(file, ".gz")
                    THEN SubSeq(file, 1, Len(file) - 1)
                    ELSE file
    IN  IF endsWith(stripped, ".nii") THEN stripped
        ELSE Append(stripped, ".nii")

DeriveName(name, url) ==
    IF name # <<>> THEN name
    ELSE IF url # <<>> THEN NameFromUrl(url)
    ELSE <<"untitled", ".nii">>

\* the options an image is loaded with: odd ids come from the same url
\* and carry no name, even ids are built from data and named by the caller
OptionInput(id) ==
    IF id % 2 = 1
    THEN [name |-> <<>>, url |-> <<"vol", ".nii", ".GZ">>]
    ELSE [name |-> <<"given">>, url |-> <<>>]

\* a caller's freshly built ImageFromUrlOptions; owner is a ghost field
\* remembering the image it is registered with
NewRecord(id) ==
    [ owner |-> id, name |-> OptionInput(id).name, url |-> OptionInput(id).url,
      colormap |-> "gray", colormapLabel |-> "null", opacity |-> Num(1),
      cal_min |-> NaN, cal_max |-> NaN, imageType |-> "absent" ]

\* the literal json() synthesizes when no record is found
DefaultImageOptions ==
    [ owner |-> 0, name |-> <<>>, url |-> <<>>,
      colormap |-> "gray", colormapLabel |-> "null", opacity |-> Num(1),
      cal_min |-> NaN, cal_max |-> NaN, imageType |-> "NII" ]

\* display states a live NVImage can be in: as loaded (an image of zeros,
\* shown gray and opaque) and as adjusted by the user
LoadedDisplay ==
    [colormap |-> "gray", colormapLabel |-> "null", opacity |-> Num(1),
     cal_min |-> Num(0), cal_max |-> Num(0)]
AdjustedDisplay ==
    [colormap |-> "hot", colormapLabel |-> "lut", opacity |-> Num(0),
     cal_min |-> Num(1), cal_max |-> Num(3)]
DisplayStates == {LoadedDisplay, AdjustedDisplay}

---------------------------------------------------------------------------
(* Queries *)

InSeq(x, s) == \E i \in 1..Len(s) : s[i] = x

hasImage(id) == InSeq(id, volumes)

hasImageFromUrl(url) ==
    \E i \in 1..Len(imageOptionsArray) :
        optionRecords[imageOptionsArray[i]].url = url

\* a ref, or 0 for null, or -1 for undefined (a position past the end of
\* the array)
getImageOptions(id) ==
    IF id \in DOMAIN imageOptionsMap
    THEN IF imageOptionsMap[id] < Len(imageOptionsArray)
         THEN imageOptionsArray[imageOptionsMap[id] + 1]
         ELSE -1
    ELSE 0

NoOp == [name |-> "init", id |-> 0, ref |-> 0]
\* a step of the owner outside NVDocument's methods
OwnerOp == [name |-> "owner", id |-> 0, ref |-> 0]
NoRet == [kind |-> "none", threw |-> FALSE, threwAt |-> 0,
          imageOptionsArray |-> <<>>, encodedImageBlobs |-> <<>>,
          imageOptionsMap |-> [i \in {} |-> 0],
          opts |-> [meshThicknessOn2D |-> Null, backColor |-> Fresh(<<>>)],
          sceneData |-> [f \in {} |-> 0]]
\* a call that raised an error returns nothing
Threw == [NoRet EXCEPT !.threw = TRUE]

---------------------------------------------------------------------------
(* Options and scene baselines *)

\* export const DEFAULT_OPTIONS, the fields the model follows
DEFAULT_OPTIONS ==
    [meshThicknessOn2D |-> Infinity,
     backColor |-> Shared("DEFAULT_OPTIONS.backColor")]

\* export const INITIAL_SCENE_DATA
INITIAL_SCENE_DATA ==
    [azimuth |-> 110,
     elevation |-> 10,
     crosshairPos |-> Shared("INITIAL_SCENE_DATA.crosshairPos"),
     clipPlane |-> Shared("INITIAL_SCENE_DATA.clipPlane"),
     clipPlaneDepthAziElev |-> Shared("INITIAL_SCENE_DATA.clipPlaneDepthAziElev"),
     volScaleMultiplier |-> 1,
     pan2Dxyzmm |-> Shared("INITIAL_SCENE_DATA.pan2Dxyzmm"),
     clipThick |-> 2,
     clipVolumeLow |-> Shared("INITIAL_SCENE_DATA.clipVolumeLow"),
     clipVolumeHigh |-> Shared("INITIAL_SCENE_DATA.clipVolumeHigh")]

\* the elements of the shared arrays when the module is loaded
InitialArrays ==
    [ref \in {"DEFAULT_OPTIONS.backColor", "o.backColor",
              "INITIAL_SCENE_DATA.crosshairPos", "INITIAL_SCENE_DATA.clipPlane",
              "INITIAL_SCENE_DATA.clipPlaneDepthAziElev",
              "INITIAL_SCENE_DATA.pan2Dxyzmm",
              "INITIAL_SCENE_DATA.clipVolumeLow",
              "INITIAL_SCENE_DATA.clipVolumeHigh"} |->
        CASE ref = "DEFAULT_OPTIONS.backColor" -> <<"0", "0", "0", "1">>
          [] ref = "o.backColor" -> <<"0", "0", "0", "1">>
          [] ref = "INITIAL_SCENE_DATA.crosshairPos" -> <<"0", "0", "0">>
          [] ref = "INITIAL_SCENE_DATA.clipPlane" -> <<"0", "0", "0", "0">>
          [] ref = "INITIAL_SCENE_DATA.clipPlaneDepthAziElev" -> <<"2", "0", "0">>
          [] ref = "INITIAL_SCENE_DATA.pan2Dxyzmm" -> <<"0", "0", "0", "0">>
          [] ref = "INITIAL_SCENE_DATA.clipVolumeLow" -> <<"0", "0", "0">>
          [] ref = "INITIAL_SCENE_DATA.clipVolumeHigh" -> <<"1", "1", "1">>]

\* the elements of an array-valued field
Elements(a) == IF a.ref = "fresh" THEN a.val ELSE arrays[a.ref]

\* scene.sceneData as the constructor builds it
ConstructedSceneData ==
    [INITIAL_SCENE_DATA EXCEPT
        !.pan2Dxyzmm = Fresh(<<"0", "0", "0", "1">>),
        !.crosshairPos = Fresh(<<"0.5", "0.5", "0.5">>)]

---------------------------------------------------------------------------
(* Operations *)

Init ==
    /\ volumes = <<>>
    /\ display = [id \in ImageIds |-> LoadedDisplay]
    /\ imageOptionsArray = <<>>
    /\ imageOptionsMap = [i \in {} |-> 0]
    /\ optionRecords = <<>>
    /\ addCount = [id \in ImageIds |-> 0]
    /\ sceneData = ConstructedSceneData
    /\ azElCalls = <<>>
    /\ zoomCalls = <<>>
    /\ opts = DEFAULT_OPTIONS
    /\ callerOpts = [meshThicknessOn2D |-> Num(1),
                     backColor |-> Shared("o.backColor")]
    /\ arrays = InitialArrays
    /\ imports = <<>>
    /\ nodes = <<>>
    /\ edges = <<>>
    /\ dispatched = "none"
    /\ lastOp = NoOp
    /\ ret = NoRet

\* the owner pushes a loaded image onto the public volumes list
AddVolume(id) ==
    /\ ~hasImage(id)
    /\ volumes' = Append(volumes, id)
    /\ lastOp' = OwnerOp
    /\ ret' = NoRet
    /\ UNCHANGED <<display, imageOptionsArray, imageOptionsMap, optionRecords,
                   addCount, sceneVars, optsVars, importVars, connectomeVars>>

\* the owner changes a live image's colormap, opacity and calibration
SetDisplay(id, d) ==
    /\ hasImage(id)
    /\ display[id] # d
    /\ display' = [display EXCEPT ![id] = d]
    /\ lastOp' = OwnerOp
    /\ ret' = NoRet
    /\ UNCHANGED <<volumes, imageOptionsArray, imageOptionsMap, optionRecords,
                   addCount, sceneVars, optsVars, importVars, connectomeVars>>

\* the record as addImageOptions leaves it
RegisteredRecord(id) ==
    LET r == NewRecord(id)
    IN  [r EXCEPT !.name = IF ~hasImage(id) THEN DeriveName(r.name, r.url)
                            ELSE r.name,
                  !.imageType = "NII"]

\* a slip: the position recorded is the length after the push
addImageOptions_LengthAsPosition(id) ==
    LET ref == Len(optionRecords) + 1
    IN  /\ optionRecords' = Append(optionRecords, RegisteredRecord(id))
        /\ imageOptionsArray' = Append(imageOptionsArray, ref)
        /\ imageOptionsMap' =
              [i \in DOMAIN imageOptionsMap \cup {id} |->
                  IF i = id THEN Len(imageOptionsArray) + 1
                  ELSE imageOptionsMap[i]]
        /\ lastOp' = [name |-> "addImageOptions", id |-> id, ref |-> ref]
        /\ ret' = NoRet
        /\ addCount' = [addCount EXCEPT ![id] = IF @ < 2 THEN @ + 1 ELSE @]
        /\ UNCHANGED <<volumes, display, sceneVars, optsVars,
               importVars, connectomeVars>>

addImageOptions(id) ==
    LET ref == Len(optionRecords) + 1
    IN  /\ optionRecords' = Append(optionRecords, RegisteredRecord(id))
        /\ imageOptionsArray' = Append(imageOptionsArray, ref)
        /\ imageOptionsMap' =
              [i \in DOMAIN imageOptionsMap \cup {id} |->
                  IF i = id THEN Len(imageOptionsArray)
                  ELSE imageOptionsMap[i]]
        /\ lastOp' = [name |-> "addImageOptions", id |-> id, ref |-> ref]
        /\ ret' = NoRet
        /\ addCount' = [addCount EXCEPT ![id] = IF @ < 2 THEN @ + 1 ELSE @]
        /\ UNCHANGED <<volumes, display, sceneVars, optsVars,
               importVars, connectomeVars>>

\* Array.prototype.splice(index, 1), index 0-based
splice(s, index) == SubSeq(s, 1, index) \o SubSeq(s, index + 2, Len(s))

\* Array.prototype.filter((i) => i.id !== id)
RECURSIVE filterOut(_, _)
filterOut(s, id) ==
    IF s = <<>> THEN <<>>
    ELSE IF Head(s) = id THEN filterOut(Tail(s), id)
    ELSE <<Head(s)>> \o filterOut(Tail(s), id)

\* a record that left imageOptionsArray is out of the document's reach:
\* the heap keeps its slot, so that refs stay unique, and forgets its fields
Unreachable == [DefaultImageOptions EXCEPT !.imageType = "unreachable"]

Collect(heap, array) ==
    [r \in DOMAIN heap |-> IF InSeq(r, array) THEN heap[r] ELSE Unreachable]

removeImage(id) ==
    /\ IF id \in DOMAIN imageOptionsMap
       THEN LET index == imageOptionsMap[id]
            IN  /\ imageOptionsArray' =
                      IF Len(imageOptionsArray) > index
                      THEN splice(imageOptionsArray, index)
                      ELSE imageOptionsArray
                /\ imageOptionsMap' =
                      [i \in DOMAIN imageOptionsMap \ {id} |-> imageOptionsMap[i]]
       ELSE UNCHANGED <<imageOptionsArray, imageOptionsMap>>
    /\ optionRecords' = Collect(optionRecords, imageOptionsArray')
    /\ volumes' = filterOut(volumes, id)
    \* the image leaves the model; adding its id again loads it anew
    /\ display' = [display EXCEPT ![id] = LoadedDisplay]
    /\ lastOp' = [name |-> "removeImage", id |-> id, ref |-> 0]
    /\ ret' = NoRet
    /\ UNCHANGED <<addCount, sceneVars, optsVars, importVars, connectomeVars>>

---------------------------------------------------------------------------
(* json(): the volumes part.  The records of imageOptionsArray are written *)
(* in place; a synthesized record is a fresh object, shown as ref 0.       *)

\* a slip: the refresh also resets the record's name
UpdateBase_ClearsName(rec, d) ==
    [rec EXCEPT !.name = <<>>,
                !.colormap = d.colormap,
                !.opacity = d.opacity,
                !.cal_max = OrNaN(d.cal_max),
                !.cal_min = OrNaN(d.cal_min)]

\* "update image options on current image settings", base volume
UpdateBase(rec, d) ==
    [rec EXCEPT !.colormap = d.colormap,
                !.opacity = d.opacity,
                !.cal_max = OrNaN(d.cal_max),
                !.cal_min = OrNaN(d.cal_min)]

\* a slip: the colormap of the record is kept
UpdateOverlay_KeepsColormap(rec, d) ==
    [rec EXCEPT !.colormapLabel = d.colormapLabel,
                !.opacity = d.opacity,
                !.cal_max = OrNaN(d.cal_max),
                !.cal_min = OrNaN(d.cal_min)]

\* the same for the volumes after the first
UpdateOverlay(rec, d) ==
    [rec EXCEPT !.colormap = d.colormap,
                !.colormapLabel = d.colormapLabel,
                !.opacity = d.opacity,
                !.cal_max = OrNaN(d.cal_max),
                !.cal_min = OrNaN(d.cal_min)]

\* NVUtilities.uint8tob64(volume.toUint8Array())
EncodedBlob(id) == <<"b64", id>>

MapSet(m, k, val) == [i \in DOMAIN m \cup {k} |-> IF i = k THEN val ELSE m[i]]

EmptyExport(heap) ==
    [heap |-> heap, threw |-> FALSE, threwAt |-> 0, out |-> <<>>, blobs |-> <<>>,
     map |-> [i \in {} |-> 0]]

\* if (this.volumes.length) { ... base volume ... }
BaseVolume(heap) ==
    LET volume == volumes[1]
        acc == EmptyExport(heap)
    IN  IF Len(imageOptionsArray) >= 1
        THEN LET ref == imageOptionsArray[1]
             IN  [acc EXCEPT
                    !.heap = [heap EXCEPT ![ref] = UpdateBase(@, display[volume])],
                    !.out = <<[ref |-> ref, rec |-> DefaultImageOptions]>>,
                    !.blobs = <<EncodedBlob(volume)>>,
                    !.map = MapSet(@, volume, 0)]
        ELSE [acc EXCEPT
                !.out = <<[ref |-> 0,
                           rec |-> UpdateBase(DefaultImageOptions, display[volume])]>>,
                !.blobs = <<EncodedBlob(volume)>>,
                !.map = MapSet(@, volume, 0)]

\* one iteration of for (let i = 1; i < this.volumes.length; i++), i 1-based
OverlayStep(i, acc) ==
    LET volume == volumes[i]
        imageOptions == getImageOptions(volume)
    IN  IF imageOptions = 0
        THEN [acc EXCEPT
                !.out = Append(@, [ref |-> 0,
                          rec |-> UpdateOverlay(DefaultImageOptions, display[volume])]),
                !.blobs = Append(@, EncodedBlob(volume)),
                !.map = MapSet(@, volume, i - 1)]
        ELSE IF imageOptions = -1
        \* 'imageType' in undefined raises a TypeError
        THEN [acc EXCEPT !.threw = TRUE, !.threwAt = i]
        ELSE [acc EXCEPT
                !.heap = [@ EXCEPT ![imageOptions] =
                            UpdateOverlay(
                                IF @.imageType = "absent"
                                THEN [@ EXCEPT !.imageType = "NII"] ELSE @,
                                display[volume])],
                !.out = Append(@, [ref |-> imageOptions, rec |-> DefaultImageOptions]),
                !.blobs = Append(@, EncodedBlob(volume)),
                !.map = MapSet(@, volume, i - 1)]

RECURSIVE OverlayLoop(_, _)
OverlayLoop(i, acc) ==
    IF i > Len(volumes) \/ acc.threw THEN acc
    ELSE OverlayLoop(i + 1, OverlayStep(i, acc))

ExportVolumes(heap) ==
    IF Len(volumes) = 0 THEN EmptyExport(heap)
    ELSE OverlayLoop(2, BaseVolume(heap))

\* the exported array holds the objects themselves: a registered record is
\* read as json() left it when it returned
ExportedRecords(acc) ==
    [p \in 1..Len(acc.out) |->
        IF acc.out[p].ref = 0 THEN acc.out[p]
        ELSE [ref |-> acc.out[p].ref, rec |-> acc.heap[acc.out[p].ref]]]

\* a slip: the options are exported as they are
ExportOpts_NoSentinel(o) == o

\* data.opts = { ...this.opts } with 'infinity' for Infinity
ExportOpts(o) ==
    IF o.meshThicknessOn2D = Infinity
    THEN [o EXCEPT !.meshThicknessOn2D = Str("infinity")]
    ELSE o

json ==
    LET acc == ExportVolumes(optionRecords)
    IN  /\ optionRecords' = acc.heap
        /\ ret' = IF acc.threw
                  THEN [NoRet EXCEPT !.threw = TRUE, !.threwAt = acc.threwAt]
                  ELSE [kind |-> "container", threw |-> FALSE, threwAt |-> 0,
                        imageOptionsArray |-> ExportedRecords(acc),
                        encodedImageBlobs |-> acc.blobs,
                        imageOptionsMap |-> acc.map,
                        opts |-> ExportOpts(opts),
                        sceneData |-> sceneData]
        /\ lastOp' = [name |-> "json", id |-> 0, ref |-> 0]
        /\ UNCHANGED <<volumes, display, imageOptionsArray, imageOptionsMap,
                       addCount, sceneVars, optsVars,
                       importVars, connectomeVars>>

---------------------------------------------------------------------------
(* The scene accessors.  The observers are the recording stubs azElCalls   *)
(* and zoomCalls; both fields always hold a function, as their type says.  *)

MaxCalls == 3       \* observer calls recorded in one behaviour

AzimuthValues == {45, 110}
ElevationValues == {10, 30}
ScaleValues == {1, 2}
CrosshairValues == {Fresh(<<"0.5", "0.5", "0.5">>), Fresh(<<"0", "0", "0">>)}
ClipPlaneValues == {Fresh(<<"0", "0", "0", "0">>), Fresh(<<"1", "0", "0", "0">>)}
DepthAziElevValues == {Fresh(<<"2", "0", "0">>), Fresh(<<"0", "90", "0">>)}
PanValues == {Fresh(<<"0", "0", "0", "1">>), Fresh(<<"5", "0", "0", "2">>)}

SceneOp(name, arg) == [name |-> name, id |-> arg, ref |-> 0]

\* a slip: the observer is told the azimuth it had before the write
renderAzimuthSet_NotifiesOldValue(azimuth) ==
    /\ sceneData' = [sceneData EXCEPT !.azimuth = azimuth]
    /\ azElCalls' = Append(azElCalls, <<sceneData.azimuth, sceneData.elevation>>)
    /\ lastOp' = SceneOp("renderAzimuth", azimuth)
    /\ ret' = NoRet
    /\ UNCHANGED <<zoomCalls, docVars, optsVars, importVars, connectomeVars>>

\* set renderAzimuth
renderAzimuthSet(azimuth) ==
    /\ sceneData' = [sceneData EXCEPT !.azimuth = azimuth]
    /\ azElCalls' = Append(azElCalls, <<sceneData'.azimuth, sceneData'.elevation>>)
    /\ lastOp' = SceneOp("renderAzimuth", azimuth)
    /\ ret' = NoRet
    /\ UNCHANGED <<zoomCalls, docVars, optsVars, importVars, connectomeVars>>

\* set renderElevation
renderElevationSet(elevation) ==
    /\ sceneData' = [sceneData EXCEPT !.elevation = elevation]
    /\ azElCalls' = Append(azElCalls, <<sceneData'.azimuth, sceneData'.elevation>>)
    /\ lastOp' = SceneOp("renderElevation", elevation)
    /\ ret' = NoRet
    /\ UNCHANGED <<zoomCalls, docVars, optsVars, importVars, connectomeVars>>

\* a slip: the zoom setter notifies the azimuth/elevation observer as well
volScaleMultiplierSet_NotifiesBoth(scale) ==
    /\ sceneData' = [sceneData EXCEPT !.volScaleMultiplier = scale]
    /\ zoomCalls' = Append(zoomCalls, scale)
    /\ azElCalls' = Append(azElCalls, <<sceneData.azimuth, sceneData.elevation>>)
    /\ lastOp' = SceneOp("volScaleMultiplier", scale)
    /\ ret' = NoRet
    /\ UNCHANGED <<docVars, optsVars, importVars, connectomeVars>>

\* set volScaleMultiplier
volScaleMultiplierSet(scale) ==
    /\ sceneData' = [sceneData EXCEPT !.volScaleMultiplier = scale]
    /\ zoomCalls' = Append(zoomCalls, scale)
    /\ lastOp' = SceneOp("volScaleMultiplier", scale)
    /\ ret' = NoRet
    /\ UNCHANGED <<azElCalls, docVars, optsVars, importVars, connectomeVars>>

\* set crosshairPos
crosshairPosSet(crosshairPos) ==
    /\ sceneData' = [sceneData EXCEPT !.crosshairPos = crosshairPos]
    /\ lastOp' = SceneOp("crosshairPos", 0)
    /\ ret' = NoRet
    /\ UNCHANGED <<azElCalls, zoomCalls, docVars, optsVars,
               importVars, connectomeVars>>

\* set clipPlane
clipPlaneSet(clipPlane) ==
    /\ sceneData' = [sceneData EXCEPT !.clipPlane = clipPlane]
    /\ lastOp' = SceneOp("clipPlane", 0)
    /\ ret' = NoRet
    /\ UNCHANGED <<azElCalls, zoomCalls, docVars, optsVars,
               importVars, connectomeVars>>

\* set clipPlaneDepthAziElev
clipPlaneDepthAziElevSet(clipPlaneDepthAziElev) ==
    /\ sceneData' = [sceneData EXCEPT
                        !.clipPlaneDepthAziElev = clipPlaneDepthAziElev]
    /\ lastOp' = SceneOp("clipPlaneDepthAziElev", 0)
    /\ ret' = NoRet
    /\ UNCHANGED <<azElCalls, zoomCalls, docVars, optsVars,
               importVars, connectomeVars>>

\* set pan2Dxyzmm
pan2DxyzmmSet(pan2Dxyzmm) ==
    /\ sceneData' = [sceneData EXCEPT !.pan2Dxyzmm = pan2Dxyzmm]
    /\ lastOp' = SceneOp("pan2Dxyzmm", 0)
    /\ ret' = NoRet
    /\ UNCHANGED <<azElCalls, zoomCalls, docVars, optsVars,
               importVars, connectomeVars>>

CallsLeft == Len(azElCalls) + Len(zoomCalls) < MaxCalls

NextScene ==
    \/ \E a \in AzimuthValues : CallsLeft /\ renderAzimuthSet(a)
    \/ \E e \in ElevationValues : CallsLeft /\ renderElevationSet(e)
    \/ \E z \in ScaleValues : CallsLeft /\ volScaleMultiplierSet(z)
    \/ \E c \in CrosshairValues : crosshairPosSet(c)
    \/ \E c \in ClipPlaneValues : clipPlaneSet(c)
    \/ \E c \in DepthAziElevValues : clipPlaneDepthAziElevSet(c)
    \/ \E c \in PanValues : pan2DxyzmmSet(c)

SpecScene == Init /\ [][NextScene]_vars

---------------------------------------------------------------------------
(* The options record.  The caller holds an options object o; the document *)
(* hands out data.opts itself through its getter.                          *)

ThicknessValues == {Infinity, NaN, Num(0), Num(3)}
ColorValues == {<<"0", "0", "0", "1">>, <<"1", "1", "1", "1">>}

OptsOp(name) == [name |-> name, id |-> 0, ref |-> 0]

\* set opts(opts): this.data.opts = { ...opts }
optsSet ==
    /\ opts' = [f \in DOMAIN callerOpts |-> callerOpts[f]]
    /\ lastOp' = OptsOp("optsSet")
    /\ ret' = NoRet
    /\ UNCHANGED <<callerOpts, arrays, docVars, sceneVars,
               importVars, connectomeVars>>

\* the caller: o.meshThicknessOn2D = v
CallerAssignsThickness(v) ==
    /\ callerOpts.meshThicknessOn2D # v
    /\ callerOpts' = [callerOpts EXCEPT !.meshThicknessOn2D = v]
    /\ lastOp' = OptsOp("callerAssignsThickness")
    /\ ret' = NoRet
    /\ UNCHANGED <<opts, arrays, docVars, sceneVars, importVars, connectomeVars>>

\* the caller: o.backColor[i] = x, written in place
CallerWritesBackColor(c) ==
    /\ Elements(callerOpts.backColor) # c
    /\ arrays' = [arrays EXCEPT ![callerOpts.backColor.ref] = c]
    /\ lastOp' = OptsOp("callerWritesBackColor")
    /\ ret' = NoRet
    /\ UNCHANGED <<opts, callerOpts, docVars, sceneVars, importVars, connectomeVars>>

\* through get opts(): doc.opts.meshThicknessOn2D = v
DocAssignsThickness(v) ==
    /\ opts.meshThicknessOn2D # v
    /\ opts' = [opts EXCEPT !.meshThicknessOn2D = v]
    /\ lastOp' = OptsOp("docAssignsThickness")
    /\ ret' = NoRet
    /\ UNCHANGED <<callerOpts, arrays, docVars, sceneVars,
               importVars, connectomeVars>>

\* through get opts(): doc.opts.backColor[i] = x, written in place
DocWritesBackColor(c) ==
    /\ Elements(opts.backColor) # c
    /\ arrays' = [arrays EXCEPT ![opts.backColor.ref] = c]
    /\ lastOp' = OptsOp("docWritesBackColor")
    /\ ret' = NoRet
    /\ UNCHANGED <<opts, callerOpts, docVars, sceneVars, importVars, connectomeVars>>

---------------------------------------------------------------------------
(* Export to bytes and import.  A JSON text is shown as the tree of values *)
(* it denotes: JSON.stringify maps each JavaScript value to the JSON value *)
(* it writes, JSON.parse gives the tree back as fresh objects.             *)

SceneArrayFields ==
    {"crosshairPos", "clipPlane", "clipPlaneDepthAziElev", "pan2Dxyzmm",
     "clipVolumeLow", "clipVolumeHigh"}

\* JSON.stringify of a number: NaN and the infinities are written as null
JSONNumber(x) ==
    IF x.t \in {"NaN", "Infinity", "-Infinity"} THEN Null ELSE x

\* JSON.stringify of an array: its elements, by value
JSONArray(a) == Fresh(Elements(a))

JSONRecord(rec) ==
    [rec EXCEPT !.opacity = JSONNumber(@),
                !.cal_min = JSONNumber(@),
                !.cal_max = JSONNumber(@)]

\* JSON.stringify(data) for the container json() returns; a Map is written
\* as {}
stringify(data) ==
    [data EXCEPT
        !.kind = "text",
        !.imageOptionsArray =
            [p \in DOMAIN @ |-> [ref |-> 0, rec |-> JSONRecord(@[p].rec)]],
        !.imageOptionsMap = [i \in {} |-> 0],
        !.opts = [meshThicknessOn2D |-> JSONNumber(@.meshThicknessOn2D),
                  backColor |-> JSONArray(@.backColor)],
        !.sceneData = [f \in DOMAIN @ |->
                          IF f \in SceneArrayFields THEN JSONArray(@[f])
                          ELSE @[f]]]

\* JSON.parse: the value a JSON text denotes, a SyntaxError for anything
\* else
SyntaxError == [kind |-> "SyntaxError"]

parse(text) ==
    IF text.kind = "text" THEN [text EXCEPT !.kind = "container"]
    ELSE SyntaxError

\* NVUtilities.compressStringToArrayBuffer: a gzip stream opens with the
\* magic bytes 1f 8b and holds the deflated text
compressStringToArrayBuffer(text) ==
    [magic |-> "1f8b", body |-> [kind |-> "deflate", of |-> text]]

\* the bytes of a text written as it is
utf8(text) == [magic |-> "none", body |-> text]

\* the content download() hands to NVUtilities.download
DownloadContent(data, compress) ==
    IF compress THEN compressStringToArrayBuffer(stringify(data))
    ELSE utf8(stringify(data))

\* NVUtilities.isArrayBufferCompressed
isArrayBufferCompressed(buffer) == buffer.magic = "1f8b"

\* NVUtilities.decompressArrayBuffer
decompressArrayBuffer(buffer) == buffer.body.of

\* TextDecoder.decode: the bytes read as text
TextDecoderDecode(buffer) == buffer.body

\* a slip: the spread is written the other way round
MergeScene_BaselineLast(base, over) ==
    [f \in DOMAIN base \cup DOMAIN over |->
        IF f \in DOMAIN base THEN base[f] ELSE over[f]]

\* { ...INITIAL_SCENE_DATA, ...data.sceneData }
MergeScene(base, over) ==
    [f \in DOMAIN base \cup DOMAIN over |->
        IF f \in DOMAIN over THEN over[f] ELSE base[f]]

\* a slip: the token is left in the options
ImportOpts_NoReversal(o) == o

\* if (opts.meshThicknessOn2D === 'infinity') opts.meshThicknessOn2D = Infinity
ImportOpts(o) ==
    IF o.meshThicknessOn2D = Str("infinity")
    THEN [o EXCEPT !.meshThicknessOn2D = Infinity]
    ELSE o

\* an object's own keys: f in obj, and obj.f = v
Has(obj, f) == f \in DOMAIN obj
Put(obj, f, v) == [g \in DOMAIN obj \cup {f} |-> IF g = f THEN v ELSE obj[g]]
NoFields == [f \in {} |-> 0]

\* serialize / deserialize of @ungap/structured-clone and the JSON text
\* of the serialized meshes
serialize(value) == [structured |-> value]
deserialize(record) == record.structured
MeshesText(meshes) == [kind |-> "text", json |-> serialize(meshes)]

\* layer[to] = layer[from]; delete layer[from]
RenameKey(layer, from, to) ==
    IF from \in DOMAIN layer
    THEN [k \in (DOMAIN layer \ {from}) \cup {to} |->
             IF k = to THEN layer[from] ELSE layer[k]]
    ELSE layer

\* a slip: the old key is copied and left in place
RenameLayer_KeepsOldKey(layer) ==
    LET Copy(l, from, to) == IF from \in DOMAIN l THEN Put(l, to, l[from]) ELSE l
    IN  Copy(Copy(layer, "colorMap", "colormap"),
             "colorMapNegative", "colormapNegative")

\* the body of the loop over mesh.layers
RenameLayer(layer) ==
    RenameKey(RenameKey(layer, "colorMap", "colormap"),
              "colorMapNegative", "colormapNegative")

\* static deserializeMeshDataObjects(document); an absent meshesString is
\* falsy and leaves meshDataObjects undefined
deserializeMeshDataObjects(document) ==
    IF Has(document, "meshesString")
    THEN LET meshDataObjects == deserialize(parse(document.meshesString).json)
         IN  Put(document, "meshDataObjects",
                 [m \in DOMAIN meshDataObjects |->
                     [meshDataObjects[m] EXCEPT !.layers =
                         [l \in DOMAIN @ |-> RenameLayer(@[l])]]])
    ELSE document

\* data.sceneData, spread: undefined adds no field
Spread(data) == IF Has(data, "sceneData") THEN data.sceneData ELSE NoFields

\* a slip: a container without options gets the defaults
LoadFromJSON_FillsOpts(data) ==
    LET opts0 == IF Has(data, "opts") THEN data.opts
                 ELSE [meshThicknessOn2D |-> Infinity, backColor |-> Fresh(<<>>)]
    IN  deserializeMeshDataObjects(
            Put(Put(Put(Put(data, "kind", "document"),
                        "opts", ImportOpts(opts0)),
                    "sceneData", MergeScene(INITIAL_SCENE_DATA, Spread(data))),
                "imageOptionsMap", NoFields))

\* the document loadFromJSON returns: data is the container, the scene is
\* merged over the baseline and imageOptionsMap is the new document's own.
\* Reading data.opts.meshThicknessOn2D raises a TypeError when data has no
\* opts.
LoadFromJSON(data) ==
    IF ~Has(data, "opts") THEN Threw
    ELSE deserializeMeshDataObjects(
            Put(Put(Put(Put(data, "kind", "document"),
                        "opts", ImportOpts(data.opts)),
                    "sceneData", MergeScene(INITIAL_SCENE_DATA, Spread(data))),
                "imageOptionsMap", NoFields))

\* the document loadFromFile returns
LoadFromFile(buffer) ==
    LET dataString == IF isArrayBufferCompressed(buffer)
                      THEN decompressArrayBuffer(buffer)
                      ELSE TextDecoderDecode(buffer)
        data == parse(dataString)
    IN  IF data = SyntaxError \/ ~Has(data, "opts") THEN Threw
        ELSE deserializeMeshDataObjects(
                Put(Put(Put(Put(data, "kind", "document"),
                            "opts", ImportOpts(data.opts)),
                        "sceneData", MergeScene(INITIAL_SCENE_DATA, Spread(data))),
                    "imageOptionsMap", NoFields))

\* a slip: the bytes are always read as plain text
LoadFromUrl_NeverDecompresses(buffer) ==
    LET documentData == parse(TextDecoderDecode(buffer))
    IN  IF documentData = SyntaxError THEN Threw
        ELSE LoadFromJSON(documentData)

\* the document loadFromUrl returns for the bytes the url serves
LoadFromUrl(buffer) ==
    LET documentData == IF isArrayBufferCompressed(buffer)
                        THEN parse(decompressArrayBuffer(buffer))
                        ELSE parse(TextDecoderDecode(buffer))
    IN  IF documentData = SyntaxError THEN Threw
        ELSE LoadFromJSON(documentData)

\* NVDocument.loadFromJSON(doc.json())
loadFromJSON ==
    /\ lastOp.name = "json"
    /\ ret.kind = "container"
    /\ ret' = LoadFromJSON(ret)
    /\ lastOp' = OptsOp("loadFromJSON")
    /\ UNCHANGED <<docVars, sceneVars, optsVars, importVars, connectomeVars>>

\* NVDocument.loadFromFile of the bytes download() writes for doc.json()
loadFromFile(compress) ==
    /\ lastOp.name = "json"
    /\ ret.kind = "container"
    /\ ret' = LoadFromFile(DownloadContent(ret, compress))
    /\ lastOp' = OptsOp("loadFromFile")
    /\ UNCHANGED <<docVars, sceneVars, optsVars, importVars, connectomeVars>>

NextOpts ==
    \/ optsSet
    \/ \E v \in ThicknessValues : CallerAssignsThickness(v)
    \/ \E c \in ColorValues : CallerWritesBackColor(c)
    \/ \E v \in ThicknessValues : DocAssignsThickness(v)
    \/ \E c \in ColorValues : DocWritesBackColor(c)
    \/ \E id \in ImageIds : AddVolume(id)
    \/ json
    \/ loadFromJSON
    \/ \E compress \in BOOLEAN : loadFromFile(compress)

SpecOpts == Init /\ [][NextOpts]_vars

---------------------------------------------------------------------------
(* Import of a container handed in by the caller, as an object             *)
(* (loadFromJSON) or as bytes (loadFromFile, loadFromUrl).                 *)

MaxImports == 2     \* import calls in one behaviour

\* mesh layers as older and current versions wrote them
LegacyLayer ==
    [colorMap |-> "warm", colorMapNegative |-> "winter", opacity |-> "1"]
HalfLegacyLayer ==
    [colorMap |-> "warm", colormapNegative |-> "cool", opacity |-> "1"]
CurrentLayer ==
    [colormap |-> "hot", colormapNegative |-> "cool", opacity |-> "1"]

LegacyMeshes ==
    << [name |-> "lh", layers |-> <<LegacyLayer, CurrentLayer>>],
       [name |-> "rh", layers |-> <<HalfLegacyLayer>>] >>
CurrentMeshes == << [name |-> "lh", layers |-> <<CurrentLayer>>] >>

\* a scene snapshot with every field, and one an older version wrote
FullScene ==
    [azimuth |-> 45,
     elevation |-> 30,
     crosshairPos |-> Fresh(<<"0.2", "0.2", "0.2">>),
     clipPlane |-> Fresh(<<"1", "0", "0", "0">>),
     clipPlaneDepthAziElev |-> Fresh(<<"0", "270", "0">>),
     volScaleMultiplier |-> 2,
     pan2Dxyzmm |-> Fresh(<<"5", "0", "0", "2">>),
     clipThick |-> 1,
     clipVolumeLow |-> Fresh(<<"0", "0", "0">>),
     clipVolumeHigh |-> Fresh(<<"1", "1", "1">>)]
PartialScene ==
    [azimuth |-> 45, clipPlane |-> Fresh(<<"1", "0", "0", "0">>)]

ContainerOpts(thickness) ==
    [meshThicknessOn2D |-> thickness, backColor |-> Fresh(<<"0", "0", "0", "1">>)]

\* the containers handed to the import entry points
Containers ==
    << [kind |-> "container", opts |-> ContainerOpts(Str("infinity")),
        sceneData |-> FullScene, meshesString |-> MeshesText(LegacyMeshes)],
       [kind |-> "container", opts |-> ContainerOpts(Num(3)),
        meshesString |-> MeshesText(CurrentMeshes)],
       [kind |-> "container", opts |-> ContainerOpts(Num(3)),
        sceneData |-> PartialScene],
       [kind |-> "container", sceneData |-> PartialScene,
        meshesString |-> MeshesText(LegacyMeshes)] >>

\* JSON.stringify of a container of Containers: every value of theirs is
\* written as it is
ContainerText(data) == [data EXCEPT !.kind = "text"]

\* the bytes of a container, as a file or a url response holds them
ContainerBytes(data, compress) ==
    IF compress THEN compressStringToArrayBuffer(ContainerText(data))
    ELSE utf8(ContainerText(data))

ImportOp(name, k) == [name |-> name, id |-> k, ref |-> 0]

\* one import call: imports keeps the entry point, the container, its
\* encoding and what the call returned
Import(via, k, compress, returned) ==
    /\ imports' = Append(imports, [via |-> via, from |-> k, compress |-> compress,
                                   returned |-> returned])
    /\ lastOp' = ImportOp(via, k)
    /\ ret' = IF returned = Threw THEN Threw ELSE NoRet
    /\ UNCHANGED <<docVars, sceneVars, optsVars, connectomeVars>>

\* NVDocument.loadFromJSON(data)
loadFromJSONOf(k) ==
    Import("loadFromJSON", k, FALSE, LoadFromJSON(Containers[k]))

\* NVDocument.loadFromFile(file)
loadFromFileOf(k, compress) ==
    Import("loadFromFile", k, compress,
           LoadFromFile(ContainerBytes(Containers[k], compress)))

\* NVDocument.loadFromUrl(url)
loadFromUrl(k, compress) ==
    Import("loadFromUrl", k, compress,
           LoadFromUrl(ContainerBytes(Containers[k], compress)))

NextImport ==
    \/ \E k \in DOMAIN Containers :
          Len(imports) < MaxImports /\ loadFromJSONOf(k)
    \/ \E k \in DOMAIN Containers, compress \in BOOLEAN :
          Len(imports) < MaxImports /\ loadFromFileOf(k, compress)
    \/ \E k \in DOMAIN Containers, compress \in BOOLEAN :
          Len(imports) < MaxImports /\ loadFromUrl(k, compress)

SpecImport == Init /\ [][NextImport]_vars

---------------------------------------------------------------------------
(* NVConnectome (src/src/nvconnectome.ts): the node and edge lists.  A     *)
(* node object is named by a number; an edge object carries, next to its   *)
(* fields, the two node objects it connected when it was added.            *)

MaxNodes == 3       \* node objects, and the length of the nodes list

NodeObjects == 1..MaxNodes

\* [node.x, node.y, node.z]; every node has a positive sizeValue
PointOf(node) == <<node, 0, 0>>
PointInputs == {PointOf(n) : n \in NodeObjects} \cup {<<0, 0, 0>>}

\* const defaultOptions, the fields updateConnectome reads for the edges
defaultOptions == [edgeMin |-> 2, edgeMax |-> 6, edgeScale |-> 1]

\* colorValue of a new edge: below edgeMin and within the range
ColorValueInputs == {1, 3}

ConnectomeOp(name) == [name |-> name, id |-> 0, ref |-> 0]

\* Array.prototype.indexOf, 0-based, -1 when absent
indexOf(s, x) ==
    IF InSeq(x, s)
    THEN (CHOOSE i \in 1..Len(s) :
             s[i] = x /\ \A j \in 1..(i - 1) : s[j] # x) - 1
    ELSE -1

\* the edge loop of updateConnectome reaches nodes[edge.first] for this edge
EdgeIsDrawn(edge) ==
    LET color == IF edge.colorValue < 0 THEN -edge.colorValue
                 ELSE edge.colorValue
        radius == color * defaultOptions.edgeScale
    IN  /\ radius > 0
        /\ defaultOptions.edgeMin < defaultOptions.edgeMax => color >= defaultOptions.edgeMin

\* nodes[k] is undefined
Missing(ns, k) == k < 0 \/ k >= Len(ns)

\* updateConnectome reads nodes[edge.first].x and nodes[edge.second].x of
\* every edge it draws: a TypeError when the node is missing
updateConnectomeThrows(ns, es) ==
    \E i \in 1..Len(es) :
        /\ EdgeIsDrawn(es[i])
        /\ Missing(ns, es[i].first) \/ Missing(ns, es[i].second)

addConnectomeNode(node) ==
    /\ nodes' = Append(nodes, node)
    /\ dispatched' = "nodeAdded"
    /\ lastOp' = ConnectomeOp("addConnectomeNode")
    /\ ret' = NoRet
    /\ UNCHANGED <<edges, docVars, sceneVars, optsVars, importVars>>

deleteConnectomeNode(node) ==
    LET index == indexOf(nodes, node)
        untouched(e) == e.first # index /\ e.second # index
        other(n) == n # node
        threw == updateConnectomeThrows(nodes', edges')
    IN  /\ edges' = SelectSeq(edges, untouched)
        /\ nodes' = SelectSeq(nodes, other)
        /\ dispatched' = IF threw THEN "none" ELSE "nodeDeleted"
        /\ lastOp' = ConnectomeOp("deleteConnectomeNode")
        /\ ret' = IF threw THEN Threw ELSE NoRet
        /\ UNCHANGED <<docVars, sceneVars, optsVars, importVars>>

\* nodes[index] = updatedNode and what follows it; index = nodes.length
\* grows the list by one
AssignNode(index, updatedNode) ==
    LET threw == updateConnectomeThrows(nodes', edges)
    IN  /\ nodes' = IF index < Len(nodes)
                    THEN [nodes EXCEPT ![index + 1] = updatedNode]
                    ELSE Append(nodes, updatedNode)
        /\ dispatched' = IF threw THEN "none" ELSE "nodeChanged"
        /\ ret' = IF threw THEN Threw ELSE NoRet
        /\ UNCHANGED <<edges, docVars, sceneVars, optsVars, importVars>>

updateConnectomeNodeByIndex(index, updatedNode) ==
    /\ AssignNode(index, updatedNode)
    /\ lastOp' = ConnectomeOp("updateConnectomeNodeByIndex")

\* nodes.find((node) => arraysAreEqual([node.x, node.y, node.z], point))
NodeAt(point) == \E i \in 1..Len(nodes) : PointOf(nodes[i]) = point

updateConnectomeNodeByPoint(point, updatedNode) ==
    /\ lastOp' = ConnectomeOp("updateConnectomeNodeByPoint")
    /\ IF ~NodeAt(point)
       THEN /\ ret' = Threw
            /\ dispatched' = "none"
            /\ UNCHANGED <<nodes, edges, docVars, sceneVars, optsVars, importVars>>
       ELSE LET node == nodes[CHOOSE i \in 1..Len(nodes) :
                                /\ PointOf(nodes[i]) = point
                                /\ \A j \in 1..(i - 1) : PointOf(nodes[j]) # point]
            IN  AssignNode(indexOf(nodes, node), updatedNode)

\* edges.find(...) of addConnectomeEdge
FoundForAdd(first, second) ==
    \E i \in 1..Len(edges) :
        /\ edges[i].first = first \/ edges[i].second = first
        /\ edges[i].first + edges[i].second = first + second

addConnectomeEdge(first, second, colorValue) ==
    /\ lastOp' = ConnectomeOp("addConnectomeEdge")
    /\ dispatched' = "none"
    /\ IF FoundForAdd(first, second)
       THEN /\ ret' = NoRet
            /\ UNCHANGED edges
       ELSE /\ edges' = Append(edges,
                   [first |-> first, second |-> second, colorValue |-> colorValue,
                    a |-> nodes[first + 1], b |-> nodes[second + 1]])
            /\ ret' = IF updateConnectomeThrows(nodes, edges') THEN Threw
                      ELSE NoRet
    /\ UNCHANGED <<nodes, docVars, sceneVars, optsVars, importVars>>

\* edges.find(...) of deleteConnectomeEdge
FoundForDelete(first, second) ==
    \E i \in 1..Len(edges) :
        /\ edges[i].first = first \/ edges[i].first = second
        /\ edges[i].first + edges[i].second = first + second

deleteConnectomeEdge(first, second) ==
    LET found(e) == /\ e.first = first \/ e.first = second
                    /\ e.first + e.second = first + second
        edge == edges[CHOOSE i \in 1..Len(edges) :
                        found(edges[i]) /\ \A j \in 1..(i - 1) : ~found(edges[j])]
        rest(e) == e # edge
    IN  /\ lastOp' = ConnectomeOp("deleteConnectomeEdge")
        /\ dispatched' = "none"
        /\ IF FoundForDelete(first, second)
           THEN /\ edges' = SelectSeq(edges, rest)
                /\ ret' = IF updateConnectomeThrows(nodes, edges') THEN Threw
                          ELSE NoRet
           ELSE /\ ret' = Threw
                /\ UNCHANGED edges
        /\ UNCHANGED <<nodes, docVars, sceneVars, optsVars, importVars>>

NodeIndices == 0..(Len(nodes) - 1)

\* the node objects a caller can hand in: those not in the list yet
NewNodes == {n \in NodeObjects : ~InSeq(n, nodes)}

NextConnectome ==
    \/ \E node \in NewNodes : addConnectomeNode(node)
    \/ \E node \in NodeObjects : deleteConnectomeNode(node)
    \/ \E index \in 0..Len(nodes), updatedNode \in NewNodes :
          updateConnectomeNodeByIndex(index, updatedNode)
    \/ \E point \in PointInputs, updatedNode \in NewNodes :
          updateConnectomeNodeByPoint(point, updatedNode)
    \/ \E first \in NodeIndices, second \in NodeIndices, c \in ColorValueInputs :
          first # second /\ addConnectomeEdge(first, second, c)
    \/ \E first \in 0..(MaxNodes - 1), second \in 0..(MaxNodes - 1) :
          first # second /\ deleteConnectomeEdge(first, second)

SpecConnectome == Init /\ [][NextConnectome]_vars

Next ==
    \/ \E id \in ImageIds : AddVolume(id)
    \/ \E id \in ImageIds, d \in DisplayStates : SetDisplay(id, d)
    \/ \E id \in ImageIds : Len(optionRecords) < MaxAdds /\ addImageOptions(id)
    \/ \E id \in ImageIds : removeImage(id)
    \/ json

Spec == Init /\ [][Next]_vars

---------------------------------------------------------------------------
(* The image-options registry *)

\* the positions of imageOptionsArray
Positions == 1..Len(imageOptionsArray)

recordOf(p) == optionRecords[imageOptionsArray[p]]

\* no image was handed to addImageOptions twice
DistinctAdds == \A id \in ImageIds : addCount[id] <= 1

\* C1: addImageOptions with an image that is already registered, or already
\* in volumes, leaves the length of imageOptionsArray and the position
\* recorded for the image unchanged.
C1_DuplicateAddIsNoOp ==
    [][ \A id \in ImageIds :
          ( /\ lastOp'.name = "addImageOptions"
            /\ lastOp'.id = id
            /\ (id \in DOMAIN imageOptionsMap \/ hasImage(id)) )
          => /\ Len(imageOptionsArray') = Len(imageOptionsArray)
             /\ (id \in DOMAIN imageOptionsMap
                   => imageOptionsMap'[id] = imageOptionsMap[id]) ]_vars

\* C2: after addImageOptions and removeImage calls on distinct images, every
\* id of imageOptionsMap maps to a position inside imageOptionsArray, and the
\* record there is the one registered with that id.
C2_RegistryPositionsConsistent ==
    DistinctAdds =>
        \A id \in DOMAIN imageOptionsMap :
            /\ imageOptionsMap[id] < Len(imageOptionsArray)
            /\ recordOf(imageOptionsMap[id] + 1).owner = id

\* the records json() reaches: the one at position 0 and the one the
\* registry gives for each volume after the first
ReachedByJson ==
    (IF Len(volumes) >= 1 /\ Len(imageOptionsArray) >= 1
     THEN {imageOptionsArray[1]} ELSE {})
    \cup ({ getImageOptions(volumes[i]) : i \in 2..Len(volumes) } \ {0, -1})

UnregisteredOverlays ==
    { i \in 2..Len(volumes) : volumes[i] \notin DOMAIN imageOptionsMap }

\* C4: for a volume after the first with no registered record, json() does
\* not raise and exports a record with colormap "gray" and opacity 1.0,
\* whatever the live volume's colormap and opacity are.
C4_DefaultIsGrayOpaque ==
    lastOp.name = "json" =>
        \A i \in UnregisteredOverlays :
            /\ ~ret.threw
            /\ ret.imageOptionsArray[i].rec.colormap = "gray"
            /\ ret.imageOptionsArray[i].rec.opacity = Num(1)

\* C4, amended: for a volume after the first with no registered record,
\* json() does not raise at that volume, and when it returns, the record
\* exported at the volume's position is a synthesized one (empty name and
\* url) holding the live volume's colormap and opacity.
C4_DefaultTakesLiveDisplay ==
    lastOp.name = "json" =>
        \A i \in UnregisteredOverlays :
            /\ ret.threwAt # i
            /\ ~ret.threw =>
                  /\ ret.imageOptionsArray[i].ref = 0
                  /\ ret.imageOptionsArray[i].rec.name = <<>>
                  /\ ret.imageOptionsArray[i].rec.url = <<>>
                  /\ ret.imageOptionsArray[i].rec.colormap
                        = display[volumes[i]].colormap
                  /\ ret.imageOptionsArray[i].rec.opacity
                        = display[volumes[i]].opacity

C4_Witness ==
    /\ lastOp.name = "json"
    /\ ~ret.threw
    /\ \E i \in UnregisteredOverlays :
          /\ display[volumes[i]].colormap = "hot"
          /\ ret.imageOptionsArray[i].rec.colormap = "hot"

\* C8: right after addImageOptions(img, opts), getImageOptions(img) is the
\* very object opts, changed at most in its name and image type.
C8_AddThenGetIsSameRecord ==
    lastOp.name = "addImageOptions" =>
        /\ getImageOptions(lastOp.id) = lastOp.ref
        /\ optionRecords[lastOp.ref]
             = [NewRecord(lastOp.id) EXCEPT
                  !.name = optionRecords[lastOp.ref].name,
                  !.imageType = optionRecords[lastOp.ref].imageType]

\* an image registered for the first time, after an earlier removal has
\* shortened the array
C8_Witness ==
    /\ lastOp.name = "addImageOptions"
    /\ addCount[lastOp.id] = 1
    /\ lastOp.ref > Len(imageOptionsArray)
    /\ getImageOptions(lastOp.id) = lastOp.ref
    /\ optionRecords[lastOp.ref].name = <<"vol", ".nii">>

\* the array without the records registered with id
RECURSIVE WithoutRecordsOf(_, _)
WithoutRecordsOf(array, id) ==
    IF array = <<>> THEN <<>>
    ELSE IF optionRecords[Head(array)].owner = id
    THEN WithoutRecordsOf(Tail(array), id)
    ELSE <<Head(array)>> \o WithoutRecordsOf(Tail(array), id)

\* C9: removeImage(img) for a registered img removes exactly img's record
\* from imageOptionsArray; afterwards getImageOptions(img) is null,
\* hasImage(img) is false, and hasImageFromUrl(img's url) is false when no
\* other registered image has that url.  (Stated for the runs in which no
\* image is added twice, so that a failure is removeImage's own.)
C9_RemoveRemovesOwnRecord ==
    [][ \A id \in ImageIds :
          ( /\ DistinctAdds
            /\ lastOp'.name = "removeImage"
            /\ lastOp'.id = id
            /\ id \in DOMAIN imageOptionsMap )
          => /\ imageOptionsArray' = WithoutRecordsOf(imageOptionsArray, id)
             /\ getImageOptions(id)' = 0
             /\ ~hasImage(id)'
             /\ ( (\A p \in Positions :
                      recordOf(p).owner # id
                          => recordOf(p).url # OptionInput(id).url)
                    => ~hasImageFromUrl(OptionInput(id).url)' ) ]_vars

---------------------------------------------------------------------------
(* The scene observers *)

PlainSetters == {"crosshairPos", "clipPlane", "clipPlaneDepthAziElev", "pan2Dxyzmm"}

\* C6: a write to renderAzimuth or renderElevation stores the value in
\* sceneData and then calls onAzimuthElevationChange once, with the azimuth
\* and elevation as stored after the write, and does not call onZoom3DChange.
C6_AzimuthElevationObserver ==
    [][ /\ lastOp'.name = "renderAzimuth" =>
              /\ sceneData'.azimuth = lastOp'.id
              /\ sceneData'.elevation = sceneData.elevation
        /\ lastOp'.name = "renderElevation" =>
              /\ sceneData'.elevation = lastOp'.id
              /\ sceneData'.azimuth = sceneData.azimuth
        /\ lastOp'.name \in {"renderAzimuth", "renderElevation"} =>
              /\ azElCalls' = Append(azElCalls,
                                <<sceneData'.azimuth, sceneData'.elevation>>)
              /\ zoomCalls' = zoomCalls ]_vars

\* azimuth set to 45 while the elevation is not the initial one
C6_Witness ==
    /\ lastOp = SceneOp("renderAzimuth", 45)
    /\ sceneData.elevation = 30
    /\ Len(azElCalls) = 2
    /\ azElCalls[2] = <<45, 30>>
    /\ zoomCalls = <<>>

\* C7: a write to volScaleMultiplier stores the scale and calls
\* onZoom3DChange once with the new scale alone, never
\* onAzimuthElevationChange; writes to crosshairPos, clipPlane,
\* clipPlaneDepthAziElev and pan2Dxyzmm call neither observer.
C7_ZoomObserver ==
    [][ /\ lastOp'.name = "volScaleMultiplier" =>
              /\ sceneData'.volScaleMultiplier = lastOp'.id
              /\ zoomCalls' = Append(zoomCalls, lastOp'.id)
              /\ azElCalls' = azElCalls
        /\ lastOp'.name \in PlainSetters =>
              /\ zoomCalls' = zoomCalls
              /\ azElCalls' = azElCalls ]_vars

C7_Witness ==
    /\ lastOp = SceneOp("volScaleMultiplier", 2)
    /\ sceneData.volScaleMultiplier = 2
    /\ zoomCalls = <<2>>
    /\ azElCalls = <<>>
    /\ sceneData.pan2Dxyzmm = Fresh(<<"5", "0", "0", "2">>)

---------------------------------------------------------------------------
(* The options record *)

Loads == {"loadFromJSON", "loadFromFile"}

IsFinite(x) == x.t = "number"

\* C5: for a document whose meshThicknessOn2D is Infinity, json() emits the
\* string "infinity" and leaves the document's own value infinite, and
\* loadFromJSON / loadFromFile of that container gives Infinity again; a
\* finite meshThicknessOn2D comes back from export and import as the same
\* number.
C5_SentinelRoundTrip ==
    [][ /\ (lastOp'.name = "json" /\ opts.meshThicknessOn2D = Infinity) =>
              /\ ret'.opts.meshThicknessOn2D = Str("infinity")
              /\ opts'.meshThicknessOn2D = Infinity
        /\ (lastOp'.name \in Loads /\ opts.meshThicknessOn2D = Infinity) =>
              ret'.opts.meshThicknessOn2D = Infinity
        /\ (lastOp'.name \in Loads /\ IsFinite(opts.meshThicknessOn2D)) =>
              ret'.opts.meshThicknessOn2D = opts.meshThicknessOn2D ]_vars

\* an infinite thickness has come back from the bytes of a file
C5_Witness ==
    /\ lastOp.name = "loadFromFile"
    /\ ret.kind = "document"
    /\ opts.meshThicknessOn2D = Infinity
    /\ ret.opts.meshThicknessOn2D = Infinity

\* the options as a value: array fields by their elements
OptsValue(o) ==
    [meshThicknessOn2D |-> o.meshThicknessOn2D,
     backColor |-> Elements(o.backColor)]

\* C10: after doc.opts = o the document's options are a deep copy of o: a
\* later mutation of o, also of its array-valued fields in place, leaves
\* doc.opts unchanged, and a mutation through doc.opts leaves o unchanged.
C10_OptsNeverAliased ==
    [][ /\ lastOp'.name \in {"callerAssignsThickness", "callerWritesBackColor"}
              => OptsValue(opts)' = OptsValue(opts)
        /\ lastOp'.name \in {"docAssignsThickness", "docWritesBackColor"}
              => OptsValue(callerOpts)' = OptsValue(callerOpts) ]_vars

---------------------------------------------------------------------------
(* Export of the volumes *)

\* the call just made was json() and it returned a container
JsonReturned == lastOp.name = "json" /\ ret.kind = "container"

\* C15: in every state the document reaches by addImageOptions, removeImage
\* and additions to volumes, json() returns a container and raises no error.
C15_ExportAlwaysCompletes ==
    lastOp.name = "json" => (~ret.threw /\ ret.kind = "container")

\* C16: the record json() exports at the position of a volume has that
\* volume's current colormap, opacity, cal_min and cal_max, also when a
\* calibration bound is 0.
C16_ExportReflectsLiveDisplay ==
    JsonReturned =>
        \A i \in 1..Len(volumes) :
            /\ i \in DOMAIN ret.imageOptionsArray
            /\ LET rec == ret.imageOptionsArray[i].rec
                   live == display[volumes[i]]
               IN  /\ rec.colormap = live.colormap
                   /\ rec.opacity = live.opacity
                   /\ rec.cal_min = live.cal_min
                   /\ rec.cal_max = live.cal_max

\* C17: json() returns a load-option array and a payload array with one
\* entry per volume, in the order of volumes: the payload of volumes[i] and
\* the record registered for volumes[i], or a synthesized one when none is
\* registered; no record object is at two positions.
C17_ExportAlignedWithVolumes ==
    lastOp.name = "json" =>
        /\ ret.kind = "container"
        /\ Len(ret.imageOptionsArray) = Len(volumes)
        /\ Len(ret.encodedImageBlobs) = Len(volumes)
        /\ \A i \in 1..Len(volumes) :
              /\ ret.encodedImageBlobs[i] = EncodedBlob(volumes[i])
              /\ ret.imageOptionsArray[i].ref =
                    IF getImageOptions(volumes[i]) > 0
                    THEN getImageOptions(volumes[i]) ELSE 0
        /\ \A i \in 1..Len(volumes), j \in 1..Len(volumes) :
              (i # j /\ ret.imageOptionsArray[i].ref # 0)
              => ret.imageOptionsArray[i].ref # ret.imageOptionsArray[j].ref

---------------------------------------------------------------------------
(* Import *)

\* the import calls that returned a document
Returned == {i \in DOMAIN imports : imports[i].returned # Threw}

ContainerOf(i) == Containers[imports[i].from]

\* the mesh layers a container holds, as <<mesh, layer>> positions
LayersOf(meshes) ==
    UNION {{<<m, l>> : l \in DOMAIN meshes[m].layers} : m \in DOMAIN meshes}

OldKeys == {"colorMap", "colorMapNegative"}

RenamedAs(old, new, key, newKey) ==
    IF key \in DOMAIN old
    THEN new[newKey] = old[key] /\ key \notin DOMAIN new
    ELSE newKey \in DOMAIN old => (newKey \in DOMAIN new /\ new[newKey] = old[newKey])

\* C11: after an import of a container with a meshesString, meshDataObjects
\* has the container's meshes and layers; a layer that carried colorMap
\* (colorMapNegative) has its value under colormap (colormapNegative) and
\* no longer has the old key; every other key keeps its value, and a layer
\* without old keys is unchanged.
C11_LegacyFieldsRenamed ==
    \A i \in Returned :
        Has(ContainerOf(i), "meshesString") =>
            LET old == deserialize(ContainerOf(i).meshesString.json)
                new == imports[i].returned.meshDataObjects
            IN  /\ DOMAIN new = DOMAIN old
                /\ \A m \in DOMAIN old :
                      /\ new[m].name = old[m].name
                      /\ DOMAIN new[m].layers = DOMAIN old[m].layers
                /\ \A p \in LayersOf(old) :
                      LET o == old[p[1]].layers[p[2]]
                          n == new[p[1]].layers[p[2]]
                      IN  /\ RenamedAs(o, n, "colorMap", "colormap")
                          /\ RenamedAs(o, n, "colorMapNegative", "colormapNegative")
                          /\ n.opacity = o.opacity
                          /\ DOMAIN o \cap OldKeys = {} => n = o

\* a container with legacy layers came in from a file's bytes
C11_Witness ==
    \E i \in Returned :
        /\ imports[i].via = "loadFromFile"
        /\ Has(ContainerOf(i), "meshesString")
        /\ \E p \in LayersOf(deserialize(ContainerOf(i).meshesString.json)) :
              "colorMap" \in DOMAIN
                  deserialize(ContainerOf(i).meshesString.json)[p[1]].layers[p[2]]
        /\ imports[i].returned.meshDataObjects[1].layers[1].colormap = "warm"

\* C12: for every scene field, an imported document's sceneData holds the
\* container's value when the container's sceneData has the field and the
\* value of INITIAL_SCENE_DATA when it has not, also when the container has
\* no sceneData.
C12_SceneMergedOverBaseline ==
    \A i \in Returned :
        /\ DOMAIN imports[i].returned.sceneData = DOMAIN INITIAL_SCENE_DATA
        /\ \A f \in DOMAIN INITIAL_SCENE_DATA :
              imports[i].returned.sceneData[f] =
                  IF Has(ContainerOf(i), "sceneData")
                     /\ f \in DOMAIN ContainerOf(i).sceneData
                  THEN ContainerOf(i).sceneData[f]
                  ELSE INITIAL_SCENE_DATA[f]

\* a container with some scene fields and one with no sceneData were imported
C12_Witness ==
    /\ \E i \in Returned :
          /\ Has(ContainerOf(i), "sceneData")
          /\ DOMAIN ContainerOf(i).sceneData # DOMAIN INITIAL_SCENE_DATA
          /\ imports[i].returned.sceneData.azimuth = 45
          /\ imports[i].returned.sceneData.elevation = 10
    /\ \E i \in Returned : ~Has(ContainerOf(i), "sceneData")

\* C13: loadFromJSON and loadFromFile of a container without opts raise an
\* error and return no document.
C13_MissingOptsIsFatal ==
    \A i \in DOMAIN imports :
        ( /\ imports[i].via \in {"loadFromJSON", "loadFromFile"}
          /\ ~Has(ContainerOf(i), "opts") )
        => imports[i].returned = Threw

\* both entry points were given the container without opts
C13_Witness ==
    /\ Len(imports) = 2
    /\ \A i \in DOMAIN imports : ~Has(ContainerOf(i), "opts")
    /\ {imports[i].via : i \in DOMAIN imports} = {"loadFromJSON", "loadFromFile"}
    /\ ret.threw

\* C14: loadFromUrl and loadFromFile return the same document (or both raise
\* an error) for the gzip bytes and for the plain bytes of one container, and
\* the two entry points agree with each other.
C14_CompressionTransparent ==
    \A i \in DOMAIN imports, j \in DOMAIN imports :
        ( /\ imports[i].via \in {"loadFromUrl", "loadFromFile"}
          /\ imports[j].via \in {"loadFromUrl", "loadFromFile"}
          /\ imports[i].from = imports[j].from )
        => imports[i].returned = imports[j].returned

\* the gzip bytes came in by url and the plain bytes of the same container
\* from a file, and a document came back
C14_Witness ==
    \E i \in Returned, j \in Returned :
        /\ imports[i].via = "loadFromUrl" /\ imports[i].compress
        /\ imports[j].via = "loadFromFile" /\ ~imports[j].compress
        /\ imports[i].from = imports[j].from
        /\ imports[i].returned.kind = "document"

\* the scene fields a container leaves out
Omitted(i) ==
    IF Has(ContainerOf(i), "sceneData")
    THEN DOMAIN INITIAL_SCENE_DATA \ DOMAIN ContainerOf(i).sceneData
    ELSE DOMAIN INITIAL_SCENE_DATA

\* a scene field as a value: arrays by their elements
SceneValue(scene, f) ==
    IF f \in SceneArrayFields THEN Elements(scene[f]) ELSE scene[f]

SameArrayObject(x, y) == x.ref # "fresh" /\ x.ref = y.ref

\* C20: a scene field the container leaves out has, in the imported
\* document, the value a newly constructed NVDocument has for it, and two
\* imported documents hold no array of such a field in common.
C20_ImportDefaultsAreConstructionDefaults ==
    /\ \A i \in Returned, f \in DOMAIN INITIAL_SCENE_DATA :
          f \in Omitted(i) =>
              SceneValue(imports[i].returned.sceneData, f) =
                  SceneValue(ConstructedSceneData, f)
    /\ \A i \in Returned, j \in Returned, f \in SceneArrayFields :
          (i # j /\ f \in Omitted(i) \cap Omitted(j)) =>
              ~SameArrayObject(imports[i].returned.sceneData[f],
                               imports[j].returned.sceneData[f])

---------------------------------------------------------------------------
(* The connectome *)

\* what a caller sees when a lookup failure is reported
FailureReported ==
    /\ ret'.threw
    /\ nodes' = nodes
    /\ edges' = edges
    /\ dispatched' = "none"

EdgeBetween(first, second) ==
    \E i \in 1..Len(edges) :
        {edges[i].first, edges[i].second} = {first, second}

\* C18: a connectome update or delete that is asked about a node or an edge
\* that does not exist (deleteConnectomeNode for a node not in the list,
\* updateConnectomeNodeByIndex for an index past the end,
\* updateConnectomeNodeByPoint for a point with no node, deleteConnectomeEdge
\* for an absent edge) raises an error, leaves nodes and edges as they were
\* and dispatches no event.
C18_LookupFailuresAreReported ==
    [][ /\ \A node \in NodeObjects :
              (~InSeq(node, nodes) /\ deleteConnectomeNode(node))
              => FailureReported
        /\ \A index \in 0..MaxNodes, updatedNode \in NodeObjects :
              (index >= Len(nodes)
               /\ updateConnectomeNodeByIndex(index, updatedNode))
              => FailureReported
        /\ \A point \in PointInputs, updatedNode \in NodeObjects :
              (~NodeAt(point) /\ updateConnectomeNodeByPoint(point, updatedNode))
              => FailureReported
        /\ \A first \in 0..MaxNodes, second \in 0..MaxNodes :
              (~EdgeBetween(first, second) /\ deleteConnectomeEdge(first, second))
              => FailureReported ]_vars

\* every edge's endpoints are positions of the nodes list and are the
\* positions of the two node objects the edge was added for
EdgesSound ==
    \A i \in 1..Len(edges) :
        /\ ~Missing(nodes, edges[i].first)
        /\ ~Missing(nodes, edges[i].second)
        /\ nodes[edges[i].first + 1] = edges[i].a
        /\ nodes[edges[i].second + 1] = edges[i].b

\* C19: when every edge connects two existing nodes, it still does, and
\* connects the same two node objects, after addConnectomeNode,
\* deleteConnectomeNode, addConnectomeEdge with positions of the list, or
\* deleteConnectomeEdge; and the redraw these calls make raises no error.
C19_EdgesKeepTheirNodes ==
    [][ ( /\ EdgesSound
          /\ lastOp'.name \in {"addConnectomeNode", "deleteConnectomeNode",
                               "addConnectomeEdge", "deleteConnectomeEdge"}
          /\ <<nodes, edges>>' # <<nodes, edges>> )
        => (EdgesSound' /\ ~ret'.threw) ]_vars

====
